---- MODULE Spec2Model ----
(***************************************************************************)
(* Model of radmc3dPy/image.py: the radmc3dImage class (readImage,         *)
(* getVisibility, getClosurePhase) as a state machine over one image       *)
(* object and the outcome of the last call made on it.  SpecRead reads an  *)
(* image file in either format; SpecVis and SpecCP read a total-intensity  *)
(* file and call getVisibility, respectively getClosurePhase, on it.       *)
(* SpecLoad reads files that may be missing or cut short; SpecConv and     *)
(* SpecPSF call imConv and getPSF; SpecFrame makes one call and then       *)
(* writes into the arrays of its result; SpecMake calls makeImage;         *)
(* SpecMoment calls getMomentMap and plotMomentMap; SpecLoop steps through *)
(* the baseline and wavelength loops of getVisibility; SpecMask calls cmask *)
(* on images of either file format; SpecFits calls writeFits and plotImage.*)
(*                                                                         *)
(* Numbers.  The code computes in float64; the model computes in fixed     *)
(* point.  Angles handed to cos/sin/arccos are carried in whole degrees    *)
(* (the code's radians times 180/pi), cosines and sines are scaled by      *)
(* Scale, and lengths are in a unit in which every pixel centre and every  *)
(* x / dpc of the enumerated inputs is a whole number.  A float nan is the *)
(* reserved value NaN.                                                     *)
(***************************************************************************)
EXTENDS Integers, Sequences, FiniteSets, TLC

(***************************************************************************)
(* Bounds of the enumerated inputs.                                        *)
(***************************************************************************)
MaxN == 3
MaxFreq == 2
MaxBl == 2
MaxTri == 2
MaxK == 4

(***************************************************************************)
(* Fixed-point helpers.                                                    *)
(***************************************************************************)
Scale == 100

\* float nan: a number outside the range of every value the model computes
NaN == -1000000000

IsNum(a) == a # NaN

Abs(a) == IF a < 0 THEN -a ELSE a

\* a / b rounded to the nearest integer (b > 0)
RoundDiv(a, b) == (2 * a + b) \div (2 * b)

RECURSIVE SqrtIter(_, _, _)
SqrtIter(n, lo, hi) ==
    IF lo >= hi THEN lo
    ELSE LET mid == (lo + hi + 1) \div 2
         IN  IF mid * mid <= n THEN SqrtIter(n, mid, hi)
                               ELSE SqrtIter(n, lo, mid - 1)

\* numpy sqrt of a non-negative number: floor(sqrt(n))
Sqrt(n) == SqrtIter(n, 0, IF n < 46340 THEN n ELSE 46340)

\* 100 * cos(d degrees), d = 0..90
CosTable ==
    << 100, 100, 100, 100, 100, 100, 99, 99, 99, 99,
       98, 98, 98, 97, 97, 97, 96, 96, 95, 95,
       94, 93, 93, 92, 91, 91, 90, 89, 88, 87,
       87, 86, 85, 84, 83, 82, 81, 80, 79, 78,
       77, 75, 74, 73, 72, 71, 69, 68, 67, 66,
       64, 63, 62, 60, 59, 57, 56, 54, 53, 52,
       50, 48, 47, 45, 44, 42, 41, 39, 37, 36,
       34, 33, 31, 29, 28, 26, 24, 22, 21, 19,
       17, 16, 14, 12, 10, 9, 7, 5, 3, 2, 0 >>

\* numpy cos of an angle of d degrees, times Scale
CosDeg(d) ==
    LET a == d % 360
    IN  IF a <= 90 THEN CosTable[a + 1]
        ELSE IF a <= 180 THEN -CosTable[180 - a + 1]
        ELSE IF a <= 270 THEN -CosTable[a - 180 + 1]
        ELSE CosTable[360 - a + 1]

\* numpy sin of an angle of d degrees, times Scale
SinDeg(d) == CosDeg(d - 90)

\* numpy arccos of r / Scale, in degrees (0..180); nan outside [-1, 1]
ArcCosDeg(r) ==
    LET acute(q) == CHOOSE d \in 0..90 :
                       /\ CosDeg(d) <= q
                       /\ \A e \in 0..(d - 1) : CosDeg(e) > q
    IN  IF r > Scale \/ r < -Scale THEN NaN
        ELSE IF r >= 0 THEN acute(r)
        ELSE 180 - acute(-r)

\* an angle of x radians in degrees: x * 180 / pi with pi = 355/113
RadToDeg(x) == RoundDiv(x * 180 * 113, 355)

\* cos(x) and sin(x) as numpy evaluates them: x is taken in radians
Cos(x) == CosDeg(RadToDeg(x))
Sin(x) == SinDeg(RadToDeg(x))

(***************************************************************************)
(* Image files.  A file is its header and the stream of intensity values   *)
(* in file order.                                                          *)
(***************************************************************************)
Ramp(n) == [k \in 1..n |-> k]

ConstSeq(n, c) == [k \in 1..n |-> c]

Impulse(n) == [k \in 1..n |-> IF k = 1 THEN 1 ELSE 0]

NPlanes(iformat) == IF iformat = 3 THEN 4 ELSE 1

File(iformat, nx, ny, nfreq, sx, sy, data) ==
    [iformat |-> iformat, nx |-> nx, ny |-> ny, nfreq |-> nfreq,
     sizepix_x |-> sx, sizepix_y |-> sy, wav |-> Ramp(nfreq), data |-> data]

SizePix == {4, 8}

\* files read in SpecRead: every shape, both layouts, distinct pixel values
ReadFiles ==
    { File(fmt, nx, ny, nf, sx, sy, Ramp(nx * ny * nf * NPlanes(fmt))) :
        fmt \in {1, 3}, nx \in 1..MaxN, ny \in 1..MaxN, nf \in 1..MaxFreq,
        sx \in SizePix, sy \in SizePix }

(***************************************************************************)
(* The radmc3dImage object.                                                *)
(***************************************************************************)
\* radmc3dImage.__init__
NewImage ==
    [loaded |-> FALSE, binary |-> FALSE, nx |-> 0, ny |-> 0, nfreq |-> 0,
     nwav |-> 0, sizepix_x |-> 0, sizepix_y |-> 0, stokes |-> FALSE,
     wav |-> << >>, shape |-> << >>, image |-> << >>, x |-> << >>, y |-> << >>]

\* the x and y assignments of readImage: ((arange(n) + 0.5) - n/2) * sizepix
\* with n an integer, so that n/2 is Python 2's floor division
HalfOf(n) == n \div 2

PixelCoord(n, sizepix) ==
    [i \in 0..(n - 1) |-> ((2 * i + 1) - 2 * HalfOf(n)) * (sizepix \div 2)]

\* ASCII branch, iformat 1: image[ix, iy, iwav] in reading order
AsciiImage(f) ==
    [t \in (0..(f.nx - 1)) \X (0..(f.ny - 1)) \X (0..(f.nfreq - 1)) |->
        f.data[(t[3] * f.nx + t[1]) * f.ny + t[2] + 1]]

\* ASCII branch, iformat 3: image[ix, iy, istokes, iwav], 4 values per line
AsciiStokesImage(f) ==
    [t \in (0..(f.nx - 1)) \X (0..(f.ny - 1)) \X (0..3) \X (0..(f.nfreq - 1)) |->
        f.data[((t[4] * f.nx + t[1]) * f.ny + t[2]) * 4 + t[3] + 1]]

\* binary branch, iformat 1: reshape to [nfreq, ny, nx], swapaxes(0,2),
\* swapaxes(0,1): the result is indexed [a, b, f] with a < ny, b < nx
BinaryImage(f) ==
    [t \in (0..(f.ny - 1)) \X (0..(f.nx - 1)) \X (0..(f.nfreq - 1)) |->
        f.data[(t[3] * f.ny + t[1]) * f.nx + t[2] + 1]]

\* binary branch, iformat 3: reshape to [nfreq, 4, ny, nx], swapaxes(0,2),
\* swapaxes(1,3): the result is indexed [a, b, f, s]
BinaryStokesImage(f) ==
    [t \in (0..(f.ny - 1)) \X (0..(f.nx - 1)) \X (0..(f.nfreq - 1)) \X (0..3) |->
        f.data[((t[3] * 4 + t[4]) * f.ny + t[1]) * f.nx + t[2] + 1]]

\* radmc3dImage.readImage applied to a new object
ReadImageOf(f, binary) ==
    LET hdr == [NewImage EXCEPT
                  !.loaded = TRUE, !.binary = binary,
                  !.nx = f.nx, !.ny = f.ny, !.nfreq = f.nfreq, !.nwav = f.nfreq,
                  !.sizepix_x = f.sizepix_x, !.sizepix_y = f.sizepix_y,
                  !.wav = [i \in 0..(f.nfreq - 1) |-> f.wav[i + 1]],
                  !.x = PixelCoord(f.nx, f.sizepix_x),
                  !.y = PixelCoord(f.ny, f.sizepix_y)]
    IN  IF f.iformat = 1 THEN
            IF binary
            THEN [hdr EXCEPT !.stokes = FALSE,
                             !.shape = <<f.ny, f.nx, f.nfreq>>,
                             !.image = BinaryImage(f)]
            ELSE [hdr EXCEPT !.stokes = FALSE,
                             !.shape = <<f.nx, f.ny, f.nfreq>>,
                             !.image = AsciiImage(f)]
        ELSE IF f.iformat = 3 THEN
            IF binary
            THEN [hdr EXCEPT !.stokes = TRUE,
                             !.shape = <<f.ny, f.nx, f.nfreq, 4>>,
                             !.image = BinaryStokesImage(f)]
            ELSE [hdr EXCEPT !.stokes = TRUE,
                             !.shape = <<f.nx, f.ny, 4, f.nfreq>>,
                             !.image = AsciiStokesImage(f)]
        ELSE hdr

(***************************************************************************)
(* getVisibility.  Units of the fixed-point model: u and v carry the       *)
(* factor Scale of the cosine and the factor Mega for 1e6; l, m are x / dpc *)
(* and y / dpc; TurnUnits of u * l make one turn (360 degrees) of Fourier  *)
(* phase.  Phases are in degrees, so the code's 2*pi is 360 here.           *)
(***************************************************************************)
Mega == 6

TurnUnits == 21600

\* sum of f[0] .. f[n-1]; NaN if any term is NaN
RECURSIVE SumTo(_, _)
SumTo(n, f) ==
    IF n = 0 THEN 0
    ELSE LET rest == SumTo(n - 1, f)
         IN  IF IsNum(rest) /\ IsNum(f[n - 1]) THEN rest + f[n - 1] ELSE NaN

\* numpy broadcasting of res['bl'] * cos(res['pa']) and its assignment to
\* the column res['u'][:, iwav] of length nbl
BroadcastOk(nbl, npa) == nbl = npa \/ npa = 1

PaAt(pa, ibl) == IF Len(pa) = 1 THEN pa[1] ELSE pa[ibl + 1]

\* lines 210-213: l, m (dpc # 0)
SkyCoord(xs, n, dpc) == [i \in 0..(n - 1) |-> xs[i] \div dpc]

\* lines 218-219
SpatialFreqU(bl, pa, wav) == (bl * Cos(pa) * Mega) \div wav
SpatialFreqV(bl, pa, wav) == (bl * Sin(pa) * Mega) \div wav

\* line 230, in degrees
FourierPhase(u, v, l, m) == RoundDiv((u * l + v * m) * 360, TurnUnits)

\* lines 223-233: dum, as <<real, imaginary>>, scaled by Scale
VisSum(c, u, v, iwav, dpc) ==
    LET l   == SkyCoord(c.x, c.nx, dpc)
        m   == SkyCoord(c.y, c.ny, dpc)
        dl  == l[1] - l[0]
        dm  == m[1] - m[0]
        ph(il, im) == FourierPhase(u, v, l[il], m[im])
        re  == SumTo(c.nx, [il \in 0..(c.nx - 1) |->
                   SumTo(c.ny, [im \in 0..(c.ny - 1) |->
                       c.image[<<il, im, iwav>>] * CosDeg(ph(il, im))])
                   * dl * dm])
        imv == SumTo(c.nx, [il \in 0..(c.nx - 1) |->
                   SumTo(c.ny, [im \in 0..(c.ny - 1) |->
                       c.image[<<il, im, iwav>>] * (-SinDeg(ph(il, im)))])
                   * dl * dm])
    IN  <<re, imv>>

\* line 236
AmpOf(dum) == Sqrt(Abs(dum[1] * dum[1] + dum[2] * dum[2]))

\* line 237: the ratio handed to arccos; 0/0 is nan
PhaseRatio(re, amp) == IF amp = 0 THEN NaN ELSE RoundDiv(re * Scale, amp)

\* lines 237-239, in degrees
PhaseOf(dum) ==
    LET ratio == PhaseRatio(dum[1], AmpOf(dum))
        ph    == IF IsNum(ratio) THEN ArcCosDeg(ratio) ELSE NaN
    IN  IF IsNum(ph) /\ dum[2] < 0 THEN 360 - ph ELSE ph

\* radmc3dImage.getVisibility, lines 194-243
GetVisibilityOf(c, bl, pa, dpc) ==
    LET nbl == Len(bl)
        B   == 0..(nbl - 1)
        W   == 0..(c.nwav - 1)
    IN  IF ~c.loaded \/ c.nx < 2 \/ c.ny < 2
        THEN [outcome |-> "error", out |-> << >>]
        ELSE IF ~BroadcastOk(nbl, Len(pa))
        THEN [outcome |-> "error", out |-> << >>]
        ELSE
          LET u   == [b \in B |-> [w \in W |->
                        SpatialFreqU(bl[b + 1], PaAt(pa, b), c.wav[w])]]
              v   == [b \in B |-> [w \in W |->
                        SpatialFreqV(bl[b + 1], PaAt(pa, b), c.wav[w])]]
              dum == [b \in B |-> [w \in W |->
                        IF dpc = 0 THEN <<NaN, NaN>>
                        ELSE VisSum(c, u[b][w], v[b][w], w, dpc)]]
          IN  [outcome |-> "ok",
               out |-> [nbl |-> nbl, nwav |-> c.nwav, u |-> u, v |-> v,
                        vis |-> dum,
                        amp |-> [b \in B |-> [w \in W |->
                                   IF dpc = 0 THEN NaN ELSE AmpOf(dum[b][w])]],
                        phase |-> [b \in B |-> [w \in W |->
                                   IF dpc = 0 THEN NaN ELSE PhaseOf(dum[b][w])]]]]

(***************************************************************************)
(* getClosurePhase.                                                        *)
(***************************************************************************)
\* the methods the class radmc3dImage defines (lines 76-710)
Methods ==
    {"__init__", "getClosurePhase", "getVisibility", "writeFits",
     "plotMomentMap", "getMomentMap", "readImage", "imConv"}

\* attribute lookup in a class that also defines get_visibility
HasMethod_withAlias(name) == name \in Methods \cup {"get_visibility"}

\* attribute lookup self.<name>
HasMethod(name) == name \in Methods

\* array(bl, dtype=float) of a list of lists: an error unless all rows have
\* the same length
Rectangular(a) == \A i, j \in 1..Len(a) : Len(a[i]) = Len(a[j])

\* res['u'][itri,:,:] = dum['u']: a (k, nwav) block into a (3, nwav) slot
FitsTriangle(k) == k = 3 \/ k = 1

\* lines 157-160, in degrees: (phase.sum(0) / pi * 180) % 360, then -360
\* where the value is > 180
ClosurePhaseOf(phase, k, w) ==
    LET raw == SumTo(k, [i \in 0..(k - 1) |-> phase[i][w]])
    IN  IF ~IsNum(raw) THEN NaN
        ELSE IF (raw % 360) > 180 THEN (raw % 360) - 360 ELSE raw % 360

\* row i of a (k, nwav) block stored into a (3, nwav) slot
RowAt(block, k, i) == IF k = 1 THEN block[0] ELSE block[i]

\* radmc3dImage.getClosurePhase, lines 126-162
GetClosurePhaseOf(c, bl, pa, dpc) ==
    LET ntri == Len(bl)
        T    == 0..(ntri - 1)
        W    == 0..(c.nwav - 1)
        dum  == [t \in T |->
                   IF t + 1 <= Len(pa)
                   THEN GetVisibilityOf(c, bl[t + 1], pa[t + 1], dpc)
                   ELSE [outcome |-> "error", out |-> << >>]]
        blk(t, key) == [i \in 0..2 |-> RowAt(dum[t].out[key], Len(bl[t + 1]), i)]
    IN  IF ~Rectangular(bl) \/ ~Rectangular(pa)
        THEN [outcome |-> "error", out |-> << >>]
        ELSE IF ~c.loaded \/ c.nx < 2 \/ c.ny < 2
        THEN [outcome |-> "error", out |-> << >>]
        ELSE IF ntri > 0 /\ ~HasMethod("get_visibility")
        THEN [outcome |-> "error", out |-> << >>]
        ELSE IF \E t \in T : \/ dum[t].outcome # "ok"
                             \/ ~FitsTriangle(Len(bl[t + 1]))
        THEN [outcome |-> "error", out |-> << >>]
        ELSE [outcome |-> "ok",
              out |-> [ntri |-> ntri, nbl |-> 3, nwav |-> c.nwav,
                       u |-> [t \in T |-> blk(t, "u")],
                       v |-> [t \in T |-> blk(t, "v")],
                       vis |-> [t \in T |-> blk(t, "vis")],
                       amp |-> [t \in T |-> blk(t, "amp")],
                       phase |-> [t \in T |-> blk(t, "phase")],
                       cp |-> [t \in T |-> [w \in W |->
                                 ClosurePhaseOf(dum[t].out.phase,
                                                Len(bl[t + 1]), w)]]]]

(***************************************************************************)
(* State: the image object, the file it was read from, and the last call.  *)
(***************************************************************************)
VARIABLES cube, src, res

vars == <<cube, src, res>>

NoFile == File(0, 0, 0, 0, 0, 0, << >>)

NoCall == [op |-> "none", outcome |-> "none", arg |-> << >>, out |-> << >>]

Init ==
    /\ cube = NewImage
    /\ src = NoFile
    /\ res = NoCall

\* readImage(fname, binary): module function, lines 851-864
readImage(f, binary) ==
    /\ ~cube.loaded
    /\ cube' = ReadImageOf(f, binary)
    /\ src' = f
    /\ UNCHANGED res

ReadAscii == \E f \in ReadFiles : readImage(f, FALSE)

ReadBinary == \E f \in ReadFiles : readImage(f, TRUE)

NextRead == ReadAscii \/ ReadBinary

SpecRead == Init /\ [][NextRead]_vars


(***************************************************************************)
(* The visibility calls on an image read from a total-intensity ASCII      *)
(* file.                                                                   *)
(***************************************************************************)
\* files read in SpecVis: blank, uniform and single-pixel images
VisFiles ==
    { File(1, nx, ny, nf, 4, 4, << >>) :
        nx \in 2..MaxN, ny \in {2, MaxN}, nf \in 1..MaxFreq }

VisData(n) == {ConstSeq(n, 0), ConstSeq(n, 1), Impulse(n)}

\* a run of SpecVis or SpecCP reads one file and then makes one call
ReadVisFile ==
    \E f \in VisFiles : \E d \in VisData(f.nx * f.ny * f.nfreq) :
        /\ res.op = "none"
        /\ readImage([f EXCEPT !.data = d], FALSE)

BlVals == {0, 1}
PaVals == {0, 90, 180}
DpcVals == {-1, 0, 1, 2}

SeqsUpTo(S, n) == UNION { [1..k -> S] : k \in 1..n }

\* the position-angle lists handed to getVisibility: one angle repeated, and
\* two lists of different angles
PaLists ==
    { [i \in 1..k |-> p] : k \in 1..MaxBl, p \in PaVals }
    \cup { <<0, 90>>, <<180, 90>> }

\* a call of getVisibility(bl, pa, dpc) on the object
getVisibility ==
    \E bl \in SeqsUpTo(BlVals, MaxBl), pa \in PaLists, dpc \in DpcVals :
        /\ res.op = "none"
        /\ LET r == GetVisibilityOf(cube, bl, pa, dpc)
           IN  res' = [op |-> "getVisibility", outcome |-> r.outcome,
                       arg |-> [bl |-> bl, pa |-> pa, dpc |-> dpc],
                       out |-> r.out]
        /\ UNCHANGED <<cube, src>>

\* the baseline triangles handed to getClosurePhase: <<lengths, angles>>
Triangles ==
    { <<[i \in 1..k |-> 1], [i \in 1..k |-> 0]>> : k \in 1..MaxK }
    \cup { <<(<<1, 1, 1>>), (<<0, 90, 180>>)>>, <<(<<0, 0, 0>>), (<<90, 90, 0>>)>>,
           <<(<<1, 1, 1>>), (<<0, 0>>)>> }

TriangleLists == UNION { [1..n -> Triangles] : n \in 0..MaxTri }

\* a call of getClosurePhase(bl, pa, dpc) on the object
getClosurePhase ==
    \E tl \in TriangleLists, dpc \in DpcVals :
        LET bl == [t \in 1..Len(tl) |-> tl[t][1]]
            pa == [t \in 1..Len(tl) |-> tl[t][2]]
        IN  /\ res.op = "none"
            /\ LET r == GetClosurePhaseOf(cube, bl, pa, dpc)
               IN  res' = [op |-> "getClosurePhase", outcome |-> r.outcome,
                           arg |-> [bl |-> bl, pa |-> pa, dpc |-> dpc],
                           out |-> r.out]
            /\ UNCHANGED <<cube, src>>

NextVis == ReadVisFile \/ getVisibility

SpecVis == Init /\ [][NextVis]_vars

NextCP == ReadVisFile \/ getClosurePhase

SpecCP == Init /\ [][NextCP]_vars

(***************************************************************************)
(* Claims about readImage, checked under SpecRead.                         *)
(***************************************************************************)

\* C9: after readImage the coordinate arrays are x[i] = (i + 0.5 - nx/2) *
\* sizepix_x and y[j] = (j + 0.5 - ny/2) * sizepix_y with N/2 the exact
\* half, for even and odd sizes, so x[i] = -x[nx-1-i] and y[j] = -y[ny-1-j].
C9_CoordsCentered ==
    cube.loaded =>
        /\ \A i \in 0..(cube.nx - 1) :
              /\ 2 * cube.x[i] = (2 * i + 1 - cube.nx) * cube.sizepix_x
              /\ cube.x[i] = -cube.x[cube.nx - 1 - i]
        /\ \A j \in 0..(cube.ny - 1) :
              /\ 2 * cube.y[j] = (2 * j + 1 - cube.ny) * cube.sizepix_y
              /\ cube.y[j] = -cube.y[cube.ny - 1 - j]

\* C10: the image array has shape (nx, ny, nfreq) without Stokes and
\* (nx, ny, 4, nfreq) with Stokes for both readers, and the binary reader
\* yields the same array as the ASCII reader on the same image data.
C10_SameArrayBothFormats ==
    cube.loaded =>
        /\ cube.shape = IF cube.stokes
                        THEN <<cube.nx, cube.ny, 4, cube.nfreq>>
                        ELSE <<cube.nx, cube.ny, cube.nfreq>>
        /\ cube.image = ReadImageOf(src, FALSE).image


(***************************************************************************)
(* Claims about getClosurePhase, checked under SpecCP, and about           *)
(* getVisibility, checked under SpecVis.                                   *)
(***************************************************************************)
IsCall(op) == res.op = op

\* the call was made on a loaded image with well-formed triangles and a
\* positive distance
WellFormedTriangles ==
    /\ cube.loaded
    /\ res.arg.dpc > 0
    /\ Len(res.arg.bl) >= 1
    /\ \A t \in 1..Len(res.arg.bl) :
          Len(res.arg.bl[t]) = 3 /\ Len(res.arg.pa[t]) = 3

\* C1: in getClosurePhase, for every triangle and wavelength the closure
\* phase is (sum of the three phases in degrees) mod 360, minus 360 exactly
\* when that exceeds 180, so it lies in (-180, 180]; a raw sum of 200 gives
\* -160 and a raw sum of 180 stays 180.
C1_ClosurePhaseWrapped ==
    (IsCall("getClosurePhase") /\ WellFormedTriangles) =>
        /\ res.outcome = "ok"
        /\ \A t \in 0..(Len(res.arg.bl) - 1) : \A w \in 0..(cube.nwav - 1) :
              LET ph  == res.out.phase[t]
                  raw == ph[0][w] + ph[1][w] + ph[2][w]
                  cp  == res.out.cp[t][w]
              IN  /\ cp = IF (raw % 360) > 180 THEN (raw % 360) - 360
                                               ELSE raw % 360
                  /\ -180 < cp /\ cp <= 180
                  /\ (raw = 200 => cp = -160)
                  /\ (raw = 180 => cp = 180)

\* C2: for every loaded cube and every list of ntri >= 1 triangles,
\* getClosurePhase runs to completion and the u, v, vis, amp and phase rows
\* stored for triangle t are what getVisibility returns for that triangle's
\* three (baseline, position angle) pairs at the same distance.
C2_ClosurePhaseRunsAndMatchesVisibility ==
    (IsCall("getClosurePhase") /\ WellFormedTriangles) =>
        /\ res.outcome = "ok"
        /\ \A t \in 0..(Len(res.arg.bl) - 1) :
              LET vis == GetVisibilityOf(cube, res.arg.bl[t + 1],
                                         res.arg.pa[t + 1], res.arg.dpc)
              IN  /\ vis.outcome = "ok"
                  /\ \A i \in 0..2 :
                        /\ res.out.u[t][i] = vis.out.u[i]
                        /\ res.out.v[t][i] = vis.out.v[i]
                        /\ res.out.vis[t][i] = vis.out.vis[i]
                        /\ res.out.amp[t][i] = vis.out.amp[i]
                        /\ res.out.phase[t][i] = vis.out.phase[i]

\* sum(image[:,:,iwav]) * dl * dm, in the units of the model's amplitudes
TotalFlux(c, iwav, dpc) ==
    LET dl == (c.x[1] - c.x[0]) \div dpc
        dm == (c.y[1] - c.y[0]) \div dpc
    IN  SumTo(c.nx, [ix \in 0..(c.nx - 1) |->
            SumTo(c.ny, [iy \in 0..(c.ny - 1) |-> c.image[<<ix, iy, iwav>>]])])
        * dl * dm * Scale

\* C3: in getVisibility, for a baseline of length 0 (any position angle),
\* u = v = 0 at every wavelength, the amplitude is the total flux
\* sum(image[:,:,iwav]) * dl * dm of that plane, and the phase is 0.
C3_ZeroBaselineIsTotalFlux ==
    (IsCall("getVisibility") /\ res.outcome = "ok" /\ res.arg.dpc > 0) =>
        \A b \in 0..(Len(res.arg.bl) - 1) : \A w \in 0..(cube.nwav - 1) :
            res.arg.bl[b + 1] = 0 =>
                /\ res.out.u[b][w] = 0
                /\ res.out.v[b][w] = 0
                /\ res.out.amp[b][w] = TotalFlux(cube, w, res.arg.dpc)
                /\ res.out.phase[b][w] = 0

\* C4: getVisibility takes the position angles in degrees:
\* u = bl*cos(pa)*1e6/wav and v = bl*sin(pa)*1e6/wav with pa in degrees, so
\* pa = 90 gives u = 0, v = bl*1e6/wav and pa = 180 gives u = -bl*1e6/wav,
\* v = 0.
C4_PositionAngleInDegrees ==
    (IsCall("getVisibility") /\ res.outcome = "ok" /\ res.arg.dpc > 0) =>
        \A b \in 0..(Len(res.arg.bl) - 1) : \A w \in 0..(cube.nwav - 1) :
            LET bl == res.arg.bl[b + 1]
                pa == PaAt(res.arg.pa, b)
            IN  /\ res.out.u[b][w] = (bl * CosDeg(pa) * Mega) \div cube.wav[w]
                /\ res.out.v[b][w] = (bl * SinDeg(pa) * Mega) \div cube.wav[w]
                /\ (pa = 90 => /\ res.out.u[b][w] = 0
                               /\ res.out.v[b][w] = (bl * Scale * Mega) \div cube.wav[w])
                /\ (pa = 180 => /\ res.out.u[b][w] = -((bl * Scale * Mega) \div cube.wav[w])
                                /\ res.out.v[b][w] = 0)

\* C5: every phase getVisibility returns is a defined number in [0, 2*pi)
\* (here [0, 360) degrees), whatever the image, a blank one included.
C5_PhaseDefinedInRange ==
    (IsCall("getVisibility") /\ res.outcome = "ok" /\ res.arg.dpc > 0) =>
        \A b \in 0..(Len(res.arg.bl) - 1) : \A w \in 0..(cube.nwav - 1) :
            /\ IsNum(res.out.phase[b][w])
            /\ 0 <= res.out.phase[b][w]
            /\ res.out.phase[b][w] < 360

\* C6: getVisibility called with a distance dpc <= 0 fails: it reports an
\* error and returns no visibility result.
C6_NonPositiveDistanceFails ==
    (IsCall("getVisibility") /\ res.arg.dpc <= 0) =>
        res.outcome = "error" /\ res.out = << >>

\* C7: getVisibility called with baseline and position-angle sequences of
\* different lengths (a single position angle against several baselines
\* included) fails with an error and returns no visibility result.
C7_LengthMismatchFails ==
    (/\ IsCall("getVisibility")
     /\ res.arg.dpc > 0
     /\ Len(res.arg.bl) # Len(res.arg.pa)) =>
        res.outcome = "error" /\ res.out = << >>

\* C8: getClosurePhase fails with an error, returning no result, whenever a
\* triangle of its input does not have exactly 3 baseline/position-angle
\* pairs.
C8_BadTriangleFails ==
    (/\ IsCall("getClosurePhase")
     /\ \E t \in 1..Len(res.arg.bl) :
           Len(res.arg.bl[t]) # 3 \/ Len(res.arg.pa[t]) # 3) =>
        res.outcome = "error" /\ res.out = << >>

\* getClosurePhase was called on a loaded image with two one-element
\* triangles and failed
C8_Witness ==
    /\ IsCall("getClosurePhase")
    /\ cube.loaded
    /\ res.arg.dpc > 0
    /\ Len(res.arg.bl) = 2
    /\ Len(res.arg.bl[1]) = 1
    /\ Len(res.arg.bl[2]) = 1
    /\ res.outcome = "error"

(***************************************************************************)
(* Loading from a path.  The path may name no file, the file may carry a   *)
(* format number other than 1 or 3, and its data may end before the last   *)
(* pixel value.                                                            *)
(***************************************************************************)
\* number of pixel values the loops (ASCII) or the reshape (binary) consume
DataLen(f) == f.nx * f.ny * f.nfreq * NPlanes(f.iformat)

Truncated(f) == Len(f.data) < DataLen(f)

\* files read in SpecLoad: format numbers 1, 2 and 3, complete or one value
\* short
LoadFiles ==
    { File(fmt, nx, ny, nf, 4, 4, Ramp(nx * ny * nf * NPlanes(fmt) - short)) :
        fmt \in 1..3, nx \in 1..MaxN, ny \in 1..MaxN, nf \in 1..MaxFreq,
        short \in 0..1 }

\* radmc3dImage.readImage on a new object: "error" is an exception that
\* leaves the method, ret is the value the method returns
ReadImageMethodOf(f, exists, binary) ==
    IF ~exists THEN
        IF binary
        THEN [outcome |-> "error", ret |-> 0, obj |-> NewImage]
        ELSE [outcome |-> "ok", ret |-> -1, obj |-> NewImage]
    ELSE IF f.iformat \in {1, 3} /\ Truncated(f)
    THEN [outcome |-> "error", ret |-> 0, obj |-> NewImage]
    ELSE [outcome |-> "ok", ret |-> 0, obj |-> ReadImageOf(f, binary)]

\* readImage(fname, binary), the module function: it returns the object
\* whatever the method returned
ReadImageFunctionOf(f, exists, binary) ==
    LET m == ReadImageMethodOf(f, exists, binary)
    IN  IF m.outcome = "error"
        THEN [outcome |-> "error", out |-> NewImage]
        ELSE [outcome |-> "ok", out |-> m.obj]

readImagePath(f, exists, binary) ==
    LET r == ReadImageFunctionOf(f, exists, binary)
    IN  /\ res.op = "none"
        /\ res' = [op |-> "readImage", outcome |-> r.outcome,
                   arg |-> [exists |-> exists, binary |-> binary],
                   out |-> << >>]
        /\ cube' = r.out
        /\ src' = f

LoadAscii == \E f \in LoadFiles, exists \in BOOLEAN : readImagePath(f, exists, FALSE)

LoadBinary == \E f \in LoadFiles, exists \in BOOLEAN : readImagePath(f, exists, TRUE)

NextLoad == LoadAscii \/ LoadBinary

SpecLoad == Init /\ [][NextLoad]_vars

(***************************************************************************)
(* Claims about loading from a path, checked under SpecLoad.               *)
(***************************************************************************)

\* C11: loading from a missing file, from a file whose format number is
\* not 1 or 3, or from a file with truncated data reports an error to the
\* caller; readImage never hands back an object with the constructor
\* defaults or with only part of its fields filled.
C11_BadFileReportsError ==
    (/\ IsCall("readImage")
     /\ \/ ~res.arg.exists
        \/ src.iformat \notin {1, 3}
        \/ Truncated(src)) =>
        res.outcome = "error"

(***************************************************************************)
(* getPSF and imConv.  Lengths (fwhm, pixel scale, coordinates) share one  *)
(* unit.  With sigma = fwhm / (2 sqrt(2 ln 2)) the Gaussian                 *)
(* exp(-0.5 xx^2 / sigmax^2 - 0.5 yy^2 / sigmay^2) is the power of two      *)
(* 2^(-4 (xx^2 / fx^2 + yy^2 / fy^2)); kernel values are kept in units of  *)
(* 1 / PsfOne and a value below one unit underflows to 0, as a value below *)
(* the smallest float64 does in the code.  2 pi sigmax sigmay is           *)
(* fx fy pi / (4 ln 2), with pi / (4 ln 2) taken as BeamNum / BeamDen.      *)
(***************************************************************************)
PsfBits == 6

PsfOne == 2 ^ PsfBits

BeamNum == 17

BeamDen == 15

\* product and absolute value of float64 values that may be nan
Mul(a, b) == IF IsNum(a) /\ IsNum(b) THEN a * b ELSE NaN

FAbs(a) == IF IsNum(a) THEN Abs(a) ELSE NaN

\* x = (arange(nx) - nx/2) * dx, with nx/2 the floor division of integers
PsfCoord(n, d) == [i \in 0..(n - 1) |-> (i - HalfOf(n)) * d]

\* exp(-0.5*xx*xx/sigmax/sigmax - 0.5*yy*yy/sigmay/sigmay): 0/0 is nan and
\* exp(-inf) is 0 when a fwhm component is 0
Gauss(xx, yy, fx, fy) ==
    IF (fx = 0 /\ xx = 0) \/ (fy = 0 /\ yy = 0) THEN NaN
    ELSE IF fx = 0 \/ fy = 0 THEN 0
    ELSE LET k == RoundDiv(4 * (xx * xx * fy * fy + yy * yy * fx * fx),
                           fx * fx * fy * fy)
         IN  IF k > PsfBits THEN 0 ELSE PsfOne \div (2 ^ k)

\* psf * norm, the unit-integral normalisation
DivNorm_timesNorm(v, fx, fy) ==
    IF IsNum(v) /\ fx * fy # 0 THEN (v * BeamDen) \div (BeamNum * fx * fy) ELSE NaN

\* psf / norm with norm = 1 / (2 pi sigmax sigmay); psf / inf is 0
DivNorm(v, fx, fy) ==
    IF IsNum(v) THEN (v * BeamNum * fx * fy) \div BeamDen ELSE NaN

\* the rotated coordinates of pixel (ix, iy)
RotX(x, y, pa) == RoundDiv(CosDeg(pa - 90) * x - SinDeg(pa - 90) * y, Scale)

RotY(x, y, pa) == RoundDiv(SinDeg(pa - 90) * x + CosDeg(pa - 90) * y, Scale)

\* getPSF(nx, ny, fwhm, pa, pscale): fwhm[0] and fwhm[1] are read without
\* any check, and zeros([nx, ny]) refuses negative sizes
GetPSFOf(nx, ny, fwhm, pa, pscale) ==
    IF Len(fwhm) < 2 \/ nx < 0 \/ ny < 0
    THEN [outcome |-> "error", out |-> << >>]
    ELSE LET x == PsfCoord(nx, pscale[1])
             y == PsfCoord(ny, pscale[2])
             psf == [p \in (0..(nx - 1)) \X (0..(ny - 1)) |->
                       DivNorm(Gauss(RotX(x[p[1]], y[p[2]], pa),
                                     RotY(x[p[1]], y[p[2]], pa),
                                     fwhm[1], fwhm[2]),
                               fwhm[1], fwhm[2])]
         IN  [outcome |-> "ok", out |-> [psf |-> psf, x |-> x, y |-> y]]

\* abs(fft.ifftshift(fft.ifft2(fft.fft2(psf) * fft.fft2(imag)))) at pixel
\* (i, j): the circular convolution of the plane with the kernel, read at the
\* position ifftshift moves to (i, j)
ConvPixel(plane, psf, nx, ny, i, j) ==
    LET si == (i + HalfOf(nx)) % nx
        sj == (j + HalfOf(ny)) % ny
    IN  FAbs(SumTo(nx * ny,
                   [q \in 0..(nx * ny - 1) |->
                       Mul(plane[<<q \div ny, q % ny>>],
                           psf[<<(si - (q \div ny)) % nx,
                                 (sj - (q % ny)) % ny>>])]))

\* cimage * conv with conv = sizepix_x * sizepix_y / (dpc*pc)**2 /
\* (fwhm[0] * fwhm[1] * pi / (4 log 2)); a zero fwhm makes conv infinite
\* or nan
ApplyConv(v, c, fwhm, dpc) ==
    IF ~IsNum(v) \/ fwhm[1] * fwhm[2] = 0 THEN NaN
    ELSE (v * c.sizepix_x * c.sizepix_y * BeamDen)
            \div (dpc * dpc * BeamNum * fwhm[1] * fwhm[2])

\* radmc3dImage.imConv(fwhm, pa, dpc) on an image read from an ASCII file
ImConvOf(c, fwhm, pa, dpc) ==
    LET dx == c.sizepix_x \div dpc
        dy == c.sizepix_y \div dpc
        g == GetPSFOf(c.nx, c.ny, fwhm, pa, <<dx, dy>>)
        psf == g.out.psf
        done(shape, image) ==
            [outcome |-> "ok",
             out |-> [cube |-> [c EXCEPT !.shape = shape, !.image = image],
                      psf |-> psf, fwhm |-> fwhm, pa |-> pa, dpc |-> dpc]]
        failed == [outcome |-> "error", out |-> << >>]
    IN  IF dpc = 0 \/ ~c.loaded \/ g.outcome = "error" THEN failed
        ELSE IF c.stokes /\ c.nfreq = 1 THEN
            \* image[:, :, istokes] of the 4-D array is (nx, ny, 1)
            IF c.nx = 1 /\ c.ny = 1
            THEN done(<<c.nx, c.ny, 4>>,
                      [t \in {0} \X {0} \X (0..3) |->
                          ApplyConv(FAbs(Mul(psf[<<0, 0>>], c.image[<<0, 0, t[3], 0>>])),
                                    c, fwhm, dpc)])
            ELSE failed
        ELSE IF c.stokes THEN
            done(<<c.nx, c.ny, 4, c.nfreq>>,
                 [t \in (0..(c.nx - 1)) \X (0..(c.ny - 1)) \X (0..3)
                          \X (0..(c.nfreq - 1)) |->
                     ApplyConv(ConvPixel([p \in (0..(c.nx - 1)) \X (0..(c.ny - 1)) |->
                                             c.image[<<p[1], p[2], t[3], t[4]>>]],
                                         psf, c.nx, c.ny, t[1], t[2]),
                               c, fwhm, dpc)])
        ELSE
            done(<<c.nx, c.ny, c.nfreq>>,
                 [t \in (0..(c.nx - 1)) \X (0..(c.ny - 1)) \X (0..(c.nfreq - 1)) |->
                     ApplyConv(ConvPixel([p \in (0..(c.nx - 1)) \X (0..(c.ny - 1)) |->
                                             c.image[<<p[1], p[2], t[3]>>]],
                                         psf, c.nx, c.ny, t[1], t[2]),
                               c, fwhm, dpc)])

(***************************************************************************)
(* Calls of imConv and getPSF.                                             *)
(***************************************************************************)
\* pixel values of both signs, as the Stokes planes Q, U and V carry them
Signed(n) == [k \in 1..n |-> IF k % 2 = 0 THEN -k ELSE k]

\* files read in SpecConv: ASCII, both layouts, every shape
ConvFiles ==
    { File(fmt, nx, ny, nf, 4, 4, << >>) :
        fmt \in {1, 3}, nx \in 1..MaxN, ny \in 1..MaxN, nf \in 1..MaxFreq }

ConvData(n) == {Ramp(n), Signed(n)}

ReadConvFile ==
    \E f \in ConvFiles : \E d \in ConvData(DataLen(f)) :
        /\ res.op = "none"
        /\ readImage([f EXCEPT !.data = d], FALSE)

\* the fwhm arguments: narrow, wide and elliptical beams, a zero and a
\* negative component, one and three components
FwhmLists == { <<2, 2>>, <<4, 4>>, <<2, 4>>, <<0, 2>>, <<-2, 2>>, <<2>>, <<2, 2, 2>> }

PsfPa == {0, 90}

ConvDpc == {0, 1, 2}

\* a call of imConv(fwhm, pa, dpc) on the object
imConv ==
    \E fwhm \in FwhmLists, pa \in PsfPa, dpc \in ConvDpc :
        /\ res.op = "none"
        /\ LET r == ImConvOf(cube, fwhm, pa, dpc)
           IN  res' = [op |-> "imConv", outcome |-> r.outcome,
                       arg |-> [fwhm |-> fwhm, pa |-> pa, dpc |-> dpc],
                       out |-> r.out]
        /\ UNCHANGED <<cube, src>>

NextConv == ReadConvFile \/ imConv

SpecConv == Init /\ [][NextConv]_vars

PsfSizes == -1..MaxN

\* pscale as given, or <<1, 1>> when it is omitted
PsfScales == { <<1, 1>>, <<4, 4>> }

\* a call of getPSF(nx, ny, fwhm, pa, pscale)
getPSF ==
    \E nx \in PsfSizes, ny \in PsfSizes, fwhm \in FwhmLists, pa \in PsfPa,
       pscale \in PsfScales :
        /\ res.op = "none"
        /\ LET r == GetPSFOf(nx, ny, fwhm, pa, pscale)
           IN  res' = [op |-> "getPSF", outcome |-> r.outcome,
                       arg |-> [nx |-> nx, ny |-> ny, fwhm |-> fwhm, pa |-> pa,
                                pscale |-> pscale],
                       out |-> r.out]
        /\ UNCHANGED <<cube, src>>

SpecPSF == Init /\ [][getPSF]_vars

(***************************************************************************)
(* Claims about imConv, checked under SpecConv.                            *)
(***************************************************************************)
\* imConv was called on a loaded image with a two-component positive fwhm
\* and a positive distance
GoodConvCall ==
    /\ IsCall("imConv")
    /\ cube.loaded
    /\ Len(res.arg.fwhm) = 2
    /\ res.arg.fwhm[1] > 0
    /\ res.arg.fwhm[2] > 0
    /\ res.arg.dpc > 0

\* C13: imConv handles a single-frequency cube in both layouts as the
\* loader produces them: for shape (nx, ny, 1) and for shape (nx, ny, 4, 1)
\* it completes and returns a convolved cube of the same shape, plane by
\* plane.
C13_SingleFrequencyConvolved ==
    (GoodConvCall /\ cube.nfreq = 1) =>
        /\ res.outcome = "ok"
        /\ res.out.cube.shape = cube.shape
        /\ DOMAIN res.out.cube.image = DOMAIN cube.image

\* the kernel imConv asks getPSF for
KernelOf(c, arg) ==
    GetPSFOf(c.nx, c.ny, arg.fwhm, arg.pa,
             <<c.sizepix_x \div arg.dpc, c.sizepix_y \div arg.dpc>>).out.psf

PsfCenter(c) == <<HalfOf(c.nx), HalfOf(c.ny)>>

\* the kernel is non-zero at its center pixel and nowhere else
IsImpulse(psf, center) ==
    \A p \in DOMAIN psf : IsNum(psf[p]) /\ ((psf[p] # 0) <=> (p = center))

\* C14: with a PSF that is non-zero only at its own center pixel, imConv
\* returns for every nx, ny and plane the input plane times one constant
\* (the kernel's peak times the conversion factor) with no spatial shift.
C14_ImpulseKeepsPlane ==
    (GoodConvCall /\ IsImpulse(KernelOf(cube, res.arg), PsfCenter(cube))) =>
        /\ res.outcome = "ok"
        /\ DOMAIN res.out.cube.image = DOMAIN cube.image
        /\ \A t \in DOMAIN cube.image :
              res.out.cube.image[t] =
                  ApplyConv(Mul(cube.image[t], res.out.psf[PsfCenter(cube)]),
                            cube, res.arg.fwhm, res.arg.dpc)

(***************************************************************************)
(* Claims about getPSF, checked under SpecPSF.                             *)
(***************************************************************************)
\* getPSF was called for a grid of at least one pixel with a two-component
\* positive fwhm and position angle 0
GoodPsfCall ==
    /\ IsCall("getPSF")
    /\ res.arg.nx >= 1
    /\ res.arg.ny >= 1
    /\ Len(res.arg.fwhm) = 2
    /\ res.arg.fwhm[1] > 0
    /\ res.arg.fwhm[2] > 0
    /\ res.arg.pa = 0

\* the pixel with x = 0 and y = 0 holds the largest value of the kernel
PeakAtCenter ==
    LET c == <<HalfOf(res.arg.nx), HalfOf(res.arg.ny)>>
    IN  /\ res.out.x[c[1]] = 0
        /\ res.out.y[c[2]] = 0
        /\ \A p \in DOMAIN res.out.psf : res.out.psf[p] <= res.out.psf[c]

PeakValue == res.out.psf[<<HalfOf(res.arg.nx), HalfOf(res.arg.ny)>>]

\* C15: for all positive fwhm = (fx, fy) and position angle 0 the kernel of
\* getPSF has its maximum at the center pixel (x = 0, y = 0) and the peak
\* value is exactly 1 / (2 pi sigma_x sigma_y).
C15_PeakIsNorm ==
    GoodPsfCall =>
        /\ res.outcome = "ok"
        /\ PeakAtCenter
        /\ PeakValue = (PsfOne * BeamDen)
                          \div (BeamNum * res.arg.fwhm[1] * res.arg.fwhm[2])

\* C15, amended: for all positive fwhm = (fx, fy) and position angle 0 the
\* kernel of getPSF has its maximum at the center pixel (x = 0, y = 0) and
\* the peak value is exactly 2 pi sigma_x sigma_y, the Gaussian's peak 1
\* divided by norm = 1 / (2 pi sigma_x sigma_y).
C15_PeakIsOneOverNorm ==
    GoodPsfCall =>
        /\ res.outcome = "ok"
        /\ PeakAtCenter
        /\ PeakValue = (PsfOne * BeamNum * res.arg.fwhm[1] * res.arg.fwhm[2])
                          \div BeamDen

\* getPSF returned an elliptical kernel on a 3 x 2 grid whose corner is
\* below the peak
C15_Witness ==
    /\ GoodPsfCall
    /\ res.outcome = "ok"
    /\ res.arg.nx = 3
    /\ res.arg.ny = 2
    /\ res.arg.fwhm = <<2, 4>>
    /\ res.out.psf[<<0, 0>>] > 0
    /\ res.out.psf[<<0, 0>>] < PeakValue

\* C16: getPSF fails with an error, returning no kernel, when fwhm does not
\* have exactly two components, when a fwhm component is zero or negative,
\* or when nx <= 0 or ny <= 0.
C16_BadPsfArgumentsFail ==
    (/\ IsCall("getPSF")
     /\ \/ Len(res.arg.fwhm) # 2
        \/ \E i \in 1..Len(res.arg.fwhm) : res.arg.fwhm[i] <= 0
        \/ res.arg.nx <= 0
        \/ res.arg.ny <= 0) =>
        res.outcome = "error" /\ res.out = << >>

(***************************************************************************)
(* cmask, and what the results of imConv, cmask, getVisibility and         *)
(* getClosurePhase share with the object they were computed from.  One     *)
(* length unit is 1 AU, so rad in AU is crad itself.                       *)
(***************************************************************************)
\* Python's None where a number is expected
None == -2000000000

\* cmask(im, rad, au, arcsec, dpc) on an image read from an ASCII file:
\* "refused" is the printed ERROR followed by a return without a value
CmaskOf(c, rad, au, arcsec, dpc) ==
    IF au /\ arcsec THEN [outcome |-> "refused", out |-> << >>]
    ELSE IF arcsec /\ dpc = None THEN [outcome |-> "error", out |-> << >>]
    ELSE LET crad == IF au THEN rad
                     ELSE IF arcsec THEN rad * dpc
                     ELSE rad * c.sizepix_x
             inside(t) == /\ crad >= 0
                          /\ c.y[t[2]] * c.y[t[2]] + c.x[t[1]] * c.x[t[1]]
                                <= crad * crad
         IN  [outcome |-> "ok",
              out |-> [c EXCEPT !.image =
                         [t \in DOMAIN c.image |->
                             IF inside(t) THEN 0 ELSE c.image[t]]]]

\* the arrays of a result that have the name of an array of the image
\* object: deepcopy(self) in imConv and deepcopy(im) in cmask copy all four,
\* the dictionaries of getVisibility and getClosurePhase hold 'wav'
ResultArrays(op, c, out) ==
    IF op = "imConv"
    THEN [image |-> out.cube.image, x |-> out.cube.x, y |-> out.cube.y,
          wav |-> out.cube.wav]
    ELSE IF op = "cmask"
    THEN [image |-> out.image, x |-> out.x, y |-> out.y, wav |-> out.wav]
    ELSE [wav |-> c.wav]

\* the arrays of a result that are the very array object of the image:
\* res['wav'] = self.wav in getClosurePhase, against array(self.wav) in
\* getVisibility and deepcopy in imConv and cmask
SharedArrays(op) == IF op = "getClosurePhase" THEN {"wav"} ELSE { }

FrameOps == {"imConv", "cmask", "getVisibility", "getClosurePhase"}

\* files read in SpecFrame: total-intensity ASCII files, uniform and
\* single-pixel images
FrameFiles ==
    { File(1, nx, ny, nf, 4, 4,
           IF one THEN Impulse(nx * ny * nf) ELSE ConstSeq(nx * ny * nf, 1)) :
        nx \in 2..MaxN, ny \in 2..MaxN, nf \in 1..MaxFreq, one \in BOOLEAN }

ReadFrameFile ==
    \E f \in FrameFiles : res.op = "none" /\ readImage(f, FALSE)

\* a call on the loaded object; the result is kept with its arrays
FrameCall(op, arg, r) ==
    /\ res.op = "none"
    /\ cube.loaded
    /\ res' = [op |-> op, outcome |-> r.outcome, arg |-> arg,
               out |-> IF r.outcome = "ok"
                       THEN [val |-> r.out,
                             arrays |-> ResultArrays(op, cube, r.out)]
                       ELSE << >>]
    /\ UNCHANGED <<cube, src>>

FrameImConv ==
    \E fwhm \in { <<2, 2>>, <<4, 4>> } :
        FrameCall("imConv", [fwhm |-> fwhm, pa |-> 0, dpc |-> 1],
                  ImConvOf(cube, fwhm, 0, 1))

FrameCmask ==
    \E rad \in 0..2, arcsec \in BOOLEAN :
        FrameCall("cmask", [rad |-> rad, au |-> FALSE, arcsec |-> arcsec, dpc |-> 1],
                  CmaskOf(cube, rad, FALSE, arcsec, 1))

FrameGetVisibility ==
    \E bl \in { <<1>>, <<0, 1>> } :
        FrameCall("getVisibility", [bl |-> bl, pa |-> <<0>>, dpc |-> 1],
                  GetVisibilityOf(cube, bl, <<0>>, 1))

FrameGetClosurePhase ==
    \E bl \in { << >>, << <<1, 1, 1>> >> } :
        FrameCall("getClosurePhase",
                  [bl |-> bl, pa |-> [t \in 1..Len(bl) |-> <<0, 90, 180>>], dpc |-> 1],
                  GetClosurePhaseOf(cube, bl,
                                    [t \in 1..Len(bl) |-> <<0, 90, 180>>], 1))

\* an element of the array a gets another value
Poke(a) ==
    LET i == CHOOSE i \in DOMAIN a : TRUE
    IN  [a EXCEPT ![i] = @ + 1]

\* the caller assigns to an element of the array k of the result it got
writeResult(k) ==
    /\ res.op \in FrameOps
    /\ res.outcome = "ok"
    /\ k \in DOMAIN res.out.arrays
    /\ DOMAIN res.out.arrays[k] # { }
    /\ res' = [op |-> "write", outcome |-> "ok",
               arg |-> [call |-> res.op, array |-> k],
               out |-> [res.out EXCEPT !.arrays[k] = Poke(@)]]
    /\ cube' = IF k \in SharedArrays(res.op)
               THEN [cube EXCEPT ![k] = Poke(@)]
               ELSE cube
    /\ UNCHANGED src

WriteResult == \E k \in {"image", "x", "y", "wav"} : writeResult(k)

NextFrame ==
    \/ ReadFrameFile
    \/ FrameImConv
    \/ FrameCmask
    \/ FrameGetVisibility
    \/ FrameGetClosurePhase
    \/ WriteResult

SpecFrame == Init /\ [][NextFrame]_vars

(***************************************************************************)
(* Claims about copies, checked under SpecFrame.                           *)
(***************************************************************************)

\* C12: imConv, cmask, getVisibility and getClosurePhase leave every field
\* of the image object unchanged, and changing an array of their result
\* afterwards never changes image, x, y or wav of the object: once read,
\* the object keeps its value through every call and every such write.
C12_SourceNeverChanges == [][cube.loaded => cube' = cube]_vars

(***************************************************************************)
(* makeImage.  A numeric keyword is a number or None; a keyword that may   *)
(* hold a list is tagged with its kind.  The command line is the sequence  *)
(* of its clauses, each a keyword with the values printed after it.        *)
(***************************************************************************)
NoArg == [kind |-> "none", val |-> << >>]

NumArg(n) == [kind |-> "num", val |-> <<n>>]

ListArg(s) == [kind |-> "list", val |-> s]

Clause(key, val) == [key |-> key, val |-> val]

\* Python's truth value of a numeric keyword: None and 0 are false
Truthy(v) == v # None /\ v # 0

\* makeImage(npix, incl, wav, sizeau, phi, posang, pointau, fluxcons, ...):
\* "minus1" is the printed error and return -1, "error" an exception,
\* launched counts the sp.Popen calls
MakeImageOf(a) ==
    LET refuse == [outcome |-> "minus1", out |-> [com |-> << >>, launched |-> 0]]
        raise == [outcome |-> "error", out |-> [com |-> << >>, launched |-> 0]]
        com1 == << Clause("npix", <<a.npix>>), Clause("incl", <<a.incl>>),
                   Clause("sizeau", <<a.sizeau>>) >>
        com2 == IF a.wav # None
                THEN Append(com1, Clause("lambda", <<a.wav>>))
                ELSE com1 \o << Clause("lambdarange", a.lambdarange.val),
                                Clause("nlam", <<a.nlam>>) >>
        com3 == IF a.phi # None THEN Append(com2, Clause("phi", <<a.phi>>)) ELSE com2
        com4 == IF a.posang.kind # "none"
                THEN Append(com3, Clause("posang", a.posang.val)) ELSE com3
        \* str(posang[0]), str(posang[1]), str(posang[2])
        com5 == IF a.pointau.kind # "none"
                THEN Append(com4, Clause("pointau", SubSeq(a.posang.val, 1, 3)))
                ELSE Append(com4, Clause("pointau", <<0, 0, 0>>))
        com6 == IF a.fluxcons THEN Append(com5, Clause("fluxcons", << >>)) ELSE com5
        com7 == IF Truthy(a.widthkms)
                THEN Append(com6, Clause("widthkms", <<a.widthkms>>)) ELSE com6
        com8 == IF Truthy(a.vkms) THEN Append(com7, Clause("vkms", <<a.vkms>>)) ELSE com7
        com9 == IF Truthy(a.linenlam)
                THEN Append(com8, Clause("linenlam", <<a.linenlam>>)) ELSE com8
        com == IF Truthy(a.iline) THEN Append(com9, Clause("iline", <<a.iline>>)) ELSE com9
    IN  IF a.npix = None THEN refuse
        ELSE IF a.incl = None THEN refuse
        ELSE IF a.wav = None /\ (a.lambdarange.kind = "none" \/ a.nlam = None) THEN refuse
        ELSE IF a.wav # None /\ a.lambdarange.kind # "none" THEN refuse
        ELSE IF a.lambdarange.kind # "none" /\ Len(a.lambdarange.val) # 2 THEN refuse
        ELSE IF a.sizeau = None THEN refuse
        ELSE IF a.pointau.kind # "none" /\ Len(a.pointau.val) # 3 THEN refuse
        ELSE IF a.pointau.kind # "none"
                /\ (a.posang.kind # "list" \/ Len(a.posang.val) < 3) THEN raise
        ELSE IF Truthy(a.widthkms) /\ Truthy(a.vkms) THEN refuse
        ELSE [outcome |-> "ok", out |-> [com |-> com, launched |-> 1]]

\* the keyword values of the calls in SpecMake; miss names the one of npix,
\* incl and sizeau that is left out, if any
MakeArgs(miss, wav, lr, nlam, phi, posang, pointau, fluxcons, widthkms, vkms, linenlam) ==
    [npix |-> IF miss = "npix" THEN None ELSE 10,
     incl |-> IF miss = "incl" THEN None ELSE 45,
     sizeau |-> IF miss = "sizeau" THEN None ELSE 100,
     wav |-> wav, lambdarange |-> lr, nlam |-> nlam, phi |-> phi,
     posang |-> posang, pointau |-> pointau, fluxcons |-> fluxcons,
     widthkms |-> widthkms, vkms |-> vkms, linenlam |-> linenlam,
     iline |-> None]

\* a call of makeImage
makeImage ==
    \E miss \in {"", "npix", "incl", "sizeau"},
       wav \in {None, 5},
       lr \in {NoArg, ListArg(<<1, 2>>), ListArg(<<1>>)},
       nlam \in {None, 3},
       phi \in {None, 30},
       posang \in {NoArg, NumArg(15), ListArg(<<7, 8, 9>>)},
       pointau \in {NoArg, ListArg(<<1, 2, 3>>), ListArg(<<1, 2>>)},
       fluxcons \in {TRUE},
       widthkms \in {None, 0, 2},
       vkms \in {None, 1},
       linenlam \in {None} :
        LET a == MakeArgs(miss, wav, lr, nlam, phi, posang, pointau, fluxcons,
                          widthkms, vkms, linenlam)
            r == MakeImageOf(a)
        IN  /\ res.op = "none"
            /\ res' = [op |-> "makeImage", outcome |-> r.outcome, arg |-> a,
                       out |-> r.out]
            /\ UNCHANGED <<cube, src>>

SpecMake == Init /\ [][makeImage]_vars

(***************************************************************************)
(* Claims about makeImage, checked under SpecMake.                         *)
(***************************************************************************)
\* the arguments are missing or contradictory
BadMakeArgs(a) ==
    \/ a.npix = None
    \/ a.incl = None
    \/ a.sizeau = None
    \/ a.wav = None /\ (a.lambdarange.kind = "none" \/ a.nlam = None)
    \/ a.wav # None /\ a.lambdarange.kind # "none"
    \/ a.lambdarange.kind # "none" /\ Len(a.lambdarange.val) # 2
    \/ a.pointau.kind # "none" /\ Len(a.pointau.val) # 3
    \/ a.widthkms # None /\ a.vkms # None

\* C17: makeImage never starts the simulator when its arguments are missing
\* or contradictory, returning the error outcome before the subprocess is
\* launched, and in every other case it launches the simulator exactly once.
C17_LaunchOnlyOnGoodArguments ==
    IsCall("makeImage") =>
        IF BadMakeArgs(res.arg)
        THEN res.outcome = "minus1" /\ res.out.launched = 0
        ELSE res.outcome = "ok" /\ res.out.launched = 1

\* C20: given pointau as a list of 3 elements, the command contains
\* ' pointau ' followed by exactly pointau[0], pointau[1], pointau[2],
\* whatever the value of posang; when pointau is not given the command
\* contains ' pointau 0.0  0.0  0.0'.
C20_PointauInCommand ==
    (IsCall("makeImage") /\ ~BadMakeArgs(res.arg)) =>
        /\ res.outcome = "ok"
        /\ \E i \in 1..Len(res.out.com) :
              res.out.com[i] =
                  Clause("pointau",
                         IF res.arg.pointau.kind = "none"
                         THEN <<0, 0, 0>> ELSE res.arg.pointau.val)

(***************************************************************************)
(* Moment maps.  Frequencies are FreqUnit / wavelength, as readImage sets  *)
(* freq = 2.99792458e10 / wav * 1e4; velocities are in units of the speed  *)
(* of light over VelUnit.                                                  *)
(***************************************************************************)
FreqUnit == 12

VelUnit == 12

FreqOf(wav) == FreqUnit \div wav

\* a check that lets every nu0 and wav0 pass
NoRestLine_never(nu0, wav0) == FALSE

\* if nu0==0: if wav0==0: neither the rest frequency nor the rest
\* wavelength of the line is given
NoRestLine(nu0, wav0) == nu0 = 0 /\ wav0 = 0

\* nu0 as given, or computed from wav0
RestFreq(nu0, wav0) == IF nu0 = 0 /\ wav0 # 0 THEN FreqOf(wav0) ELSE nu0

\* v = 2.99792458e10 * (nu0 - self.freq) / nu0 / 1e5; a division of an
\* array by 0 gives inf or nan
Velocity(nu0, freq) ==
    IF nu0 = 0 THEN NaN ELSE (VelUnit * (nu0 - freq)) \div nu0

\* vmap ** moment
RECURSIVE Pow(_, _)
Pow(v, m) == IF m = 0 THEN 1 ELSE Mul(v, Pow(v, m - 1))

Add(a, b) == IF IsNum(a) /\ IsNum(b) THEN a + b ELSE NaN

\* dum.sum(2) at pixel (ix, iy): the trapezoid sum over the channels of
\* (v[k+1] - v[k]) * (y[k+1] + y[k]) * 0.5 with y = image * vmap ** moment
MomentPixel(c, moment, nu0, ix, iy) ==
    LET v == [k \in 0..(c.nfreq - 1) |-> Velocity(nu0, FreqOf(c.wav[k]))]
        y == [k \in 0..(c.nfreq - 1) |->
                 Mul(c.image[<<ix, iy, k>>], Pow(v[k], moment))]
        s == SumTo(c.nfreq - 1,
                   [k \in 0..(c.nfreq - 2) |->
                       Mul(Add(v[k + 1], -v[k]), Add(y[k + 1], y[k]))])
    IN  IF IsNum(s) THEN s \div 2 ELSE NaN

\* the checks both moment-map methods start with: "refused" is the printed
\* ERROR followed by a return without a value, "error" the AttributeError
\* of self.image.shape on an object that was never read
MomentCheck(c, nu0, wav0) ==
    IF NoRestLine(nu0, wav0) THEN "refused"
    ELSE IF ~c.loaded THEN "error"
    ELSE IF Len(c.shape) # 3 THEN "refused"
    ELSE "ok"

\* radmc3dImage.getMomentMap(moment, nu0, wav0) on an image read from an
\* ASCII file
GetMomentMapOf(c, moment, nu0, wav0) ==
    IF MomentCheck(c, nu0, wav0) # "ok"
    THEN [outcome |-> MomentCheck(c, nu0, wav0), out |-> << >>]
    ELSE [outcome |-> "ok",
          out |-> [p \in (0..(c.nx - 1)) \X (0..(c.ny - 1)) |->
                     MomentPixel(c, moment, RestFreq(nu0, wav0), p[1], p[2])]]

\* radmc3dImage.plotMomentMap(moment, nu0, wav0, ...): after the same checks
\* it asks for self.get_momentmap
PlotMomentMapOf(c, moment, nu0, wav0) ==
    IF MomentCheck(c, nu0, wav0) # "ok"
    THEN [outcome |-> MomentCheck(c, nu0, wav0), out |-> << >>]
    ELSE IF ~HasMethod("get_momentmap")
    THEN [outcome |-> "error", out |-> << >>]
    ELSE GetMomentMapOf(c, moment, RestFreq(nu0, wav0), wav0)

ReadMomentFile ==
    \E f \in ConvFiles :
        /\ res.op = "none"
        /\ readImage([f EXCEPT !.data = Ramp(DataLen(f))], FALSE)

Moments == 0..2

RestFreqs == {0, 6, 12}

RestWavs == {0, 1, 2}

\* a call of getMomentMap(moment, nu0, wav0) on the object
getMomentMap ==
    \E moment \in Moments, nu0 \in RestFreqs, wav0 \in RestWavs :
        /\ res.op = "none"
        /\ LET r == GetMomentMapOf(cube, moment, nu0, wav0)
           IN  res' = [op |-> "getMomentMap", outcome |-> r.outcome,
                       arg |-> [moment |-> moment, nu0 |-> nu0, wav0 |-> wav0],
                       out |-> r.out]
        /\ UNCHANGED <<cube, src>>

\* a call of plotMomentMap(moment, nu0, wav0) on the object
plotMomentMap ==
    \E moment \in Moments, nu0 \in RestFreqs, wav0 \in RestWavs :
        /\ res.op = "none"
        /\ LET r == PlotMomentMapOf(cube, moment, nu0, wav0)
           IN  res' = [op |-> "plotMomentMap", outcome |-> r.outcome,
                       arg |-> [moment |-> moment, nu0 |-> nu0, wav0 |-> wav0],
                       out |-> r.out]
        /\ UNCHANGED <<cube, src>>

NextMoment == ReadMomentFile \/ getMomentMap \/ plotMomentMap

SpecMoment == Init /\ [][NextMoment]_vars

(***************************************************************************)
(* Claims about the moment maps, checked under SpecMoment.                 *)
(***************************************************************************)

\* C18: getMomentMap and plotMomentMap report an error to the caller
\* instead of a result (the printed ERROR and a return without a value, or
\* an exception) when neither the rest frequency nu0 nor the rest wavelength
\* wav0 is given, and when the image array is not three-dimensional.
C18_MomentMapRefusesBadInput ==
    (/\ IsCall("getMomentMap") \/ IsCall("plotMomentMap")
     /\ \/ res.arg.nu0 = 0 /\ res.arg.wav0 = 0
        \/ Len(cube.shape) # 3) =>
        res.outcome \in {"refused", "error"} /\ res.out = << >>

\* getMomentMap was called on a three-dimensional image of two channels
\* with neither nu0 nor wav0 and returned no map
C18_Witness ==
    /\ IsCall("getMomentMap")
    /\ cube.loaded
    /\ Len(cube.shape) = 3
    /\ cube.nfreq = 2
    /\ res.arg.nu0 = 0
    /\ res.arg.wav0 = 0
    /\ res.outcome = "refused"

(***************************************************************************)
(* The loop of getVisibility, one (baseline, wavelength) iteration at a    *)
(* time and in any order.  The state of the loop is the set of iterations  *)
(* still to run, the output arrays, and the local dum as the last          *)
(* iteration left it.                                                      *)
(***************************************************************************)
AddC(a, b) == <<Add(a[1], b[1]), Add(a[2], b[2])>>

\* an iteration that goes on summing where the previous one stopped
DumStart_carried(prev) == prev

\* dum = complex(0.) at the head of the iteration, whatever the previous
\* iteration left in dum
DumStart(prev) == <<0, 0>>

\* the arrays as zeros() creates them, before the loop
LoopInit(c, bl) ==
    LET B == 0..(Len(bl) - 1)
        W == 0..(c.nwav - 1)
        zero == [b \in B |-> [w \in W |-> 0]]
    IN  [todo |-> B \X W, dum |-> <<0, 0>>, u |-> zero, v |-> zero,
         vis |-> [b \in B |-> [w \in W |-> <<0, 0>>]],
         amp |-> zero, phase |-> zero]

\* the iteration for ibl = b and iwav = w: its elements of the columns u and
\* v, then dum, vis, amp and phase
VisIteration(c, bl, pa, dpc, b, w, st) ==
    LET u == SpatialFreqU(bl[b + 1], PaAt(pa, b), c.wav[w])
        v == SpatialFreqV(bl[b + 1], PaAt(pa, b), c.wav[w])
        dum == IF dpc = 0 THEN <<NaN, NaN>>
               ELSE AddC(DumStart(st.dum), VisSum(c, u, v, w, dpc))
    IN  [st EXCEPT !.todo = @ \ {<<b, w>>},
                   !.dum = dum,
                   !.u[b][w] = u,
                   !.v[b][w] = v,
                   !.vis[b][w] = dum,
                   !.amp[b][w] = IF dpc = 0 THEN NaN ELSE AmpOf(dum),
                   !.phase[b][w] = IF dpc = 0 THEN NaN ELSE PhaseOf(dum)]

\* files read in SpecLoop: 2 x 2 images of MaxFreq wavelengths
LoopFiles ==
    { File(1, 2, 2, MaxFreq, 4, 4, d) :
        d \in { ConstSeq(4 * MaxFreq, 1), Impulse(4 * MaxFreq) } }

ReadLoopFile == \E f \in LoopFiles : res.op = "none" /\ readImage(f, FALSE)

\* the baselines and angles of the calls in SpecLoop: MaxBl baselines of
\* alternating length, one angle for all or one angle each
LoopBl == { [i \in 1..MaxBl |-> i % 2] }

LoopPa == { <<0>>, <<90>>, [i \in 1..MaxBl |-> 90 * (i % 2)] }

LoopDpc == {1}

\* getVisibility(bl, pa, dpc) reaches its loop
startLoop ==
    \E bl \in LoopBl, pa \in LoopPa, dpc \in LoopDpc :
        /\ res.op = "none"
        /\ GetVisibilityOf(cube, bl, pa, dpc).outcome = "ok"
        /\ res' = [op |-> "getVisibilityLoop", outcome |-> "running",
                   arg |-> [bl |-> bl, pa |-> pa, dpc |-> dpc],
                   out |-> LoopInit(cube, bl)]
        /\ UNCHANGED <<cube, src>>

\* one iteration of the loop; the call returns after the last one
iterate ==
    /\ res.op = "getVisibilityLoop"
    /\ \E t \in res.out.todo :
          LET st == VisIteration(cube, res.arg.bl, res.arg.pa, res.arg.dpc,
                                 t[1], t[2], res.out)
          IN  res' = [res EXCEPT !.out = st,
                                 !.outcome = IF st.todo = { } THEN "ok"
                                             ELSE "running"]
    /\ UNCHANGED <<cube, src>>

NextLoop == ReadLoopFile \/ startLoop \/ iterate

SpecLoop == Init /\ [][NextLoop]_vars

(***************************************************************************)
(* Claims about the loop of getVisibility, checked under SpecLoop.         *)
(***************************************************************************)

MaskRadius(c, rad, au, arcsec, dpc) ==
    IF au THEN rad
    ELSE IF arcsec THEN rad * dpc
    ELSE rad * c.sizepix_x

\* ii = r <= crad with r = sqrt(im.y**2 + im.x[ix]**2), at iy
InsideMask(c, crad, ix, iy) ==
    /\ crad >= 0
    /\ c.y[iy] * c.y[iy] + c.x[ix] * c.x[ix] <= crad * crad

\* the assignment res.image[ix, ii] = 0.0 raises IndexError: ix is beyond
\* the first axis, or ii does not fit the second axis.  A boolean index of
\* the wrong length is an error in numpy from 1.13 on (strict); before
\* that it is read as the positions of its true entries, which must lie
\* inside the axis
RowFails(c, crad, ix, strict) ==
    \/ ix >= c.shape[1]
    \/ /\ c.shape[2] # c.ny
       /\ \/ strict
          \/ \E iy \in 0..(c.ny - 1) :
                iy >= c.shape[2] /\ InsideMask(c, crad, ix, iy)

\* cmask(im, rad, au, arcsec, dpc) on any image object
CmaskOn(c, rad, au, arcsec, dpc, strict) ==
    IF au /\ arcsec THEN [outcome |-> "refused", out |-> << >>]
    ELSE IF arcsec /\ dpc = None THEN [outcome |-> "error", out |-> << >>]
    ELSE IF ~c.loaded THEN [outcome |-> "ok", out |-> c]
    ELSE IF c.shape[1] = c.nx /\ c.shape[2] = c.ny
         THEN CmaskOf(c, rad, au, arcsec, dpc)
    ELSE LET crad == MaskRadius(c, rad, au, arcsec, dpc)
         IN  IF \E ix \in 0..(c.nx - 1) : RowFails(c, crad, ix, strict)
             THEN [outcome |-> "error", out |-> << >>]
             ELSE [outcome |-> "ok",
                   out |-> [c EXCEPT !.image =
                              [t \in DOMAIN c.image |->
                                  IF /\ t[1] < c.nx
                                     /\ t[2] < c.ny
                                     /\ InsideMask(c, crad, t[1], t[2])
                                  THEN 0 ELSE c.image[t]]]]

\* files read in SpecMask: both layouts, every shape, square and oblong
\* pixels, no pixel value 0
MaskFiles ==
    { File(fmt, nx, ny, nf, 4, sy, Ramp(nx * ny * nf * NPlanes(fmt))) :
        fmt \in {1, 3}, nx \in 1..MaxN, ny \in 1..MaxN, nf \in 1..MaxFreq,
        sy \in SizePix }

ReadMaskFile ==
    \E f \in MaskFiles, binary \in BOOLEAN :
        res.op = "none" /\ readImage(f, binary)

MaskRads == {-1, 0, 1, 3}

MaskDpc == {None, 2}

\* a call of cmask(im, rad, au, arcsec, dpc) on the object, under either
\* reading of a boolean index of the wrong length
cmask ==
    \E rad \in MaskRads, au \in BOOLEAN, arcsec \in BOOLEAN, dpc \in MaskDpc,
       strict \in BOOLEAN :
        /\ res.op = "none"
        /\ LET r == CmaskOn(cube, rad, au, arcsec, dpc, strict)
           IN  res' = [op |-> "cmask", outcome |-> r.outcome,
                       arg |-> [rad |-> rad, au |-> au, arcsec |-> arcsec,
                                dpc |-> dpc, strict |-> strict],
                       out |-> r.out]
        /\ UNCHANGED <<cube, src>>

NextMask == ReadMaskFile \/ cmask

SpecMask == Init /\ [][NextMask]_vars

\* the planes of pixel (ix, iy) in the array a
PlanesAt(a, ix, iy) == { t \in DOMAIN a : t[1] = ix /\ t[2] = iy }

\* C21: cmask returns a copy of the cube in which exactly the pixels
\* (ix, iy) with sqrt(x[ix]^2 + y[iy]^2) <= crad are 0 in every frequency
\* and Stokes plane and every other pixel keeps its input value, crad being
\* rad AU, rad * dpc AU for arcsec and rad * sizepix_x for pixel units;
\* with both au and arcsec set it returns no cube.
C21_MaskZeroesInside ==
    (IsCall("cmask") /\ cube.loaded) =>
        IF res.arg.au /\ res.arg.arcsec
        THEN res.outcome = "refused"
        ELSE (res.arg.arcsec => res.arg.dpc # None) =>
            /\ res.outcome = "ok"
            /\ [res.out EXCEPT !.image = cube.image] = cube
            /\ DOMAIN res.out.image = DOMAIN cube.image
            /\ LET crad == MaskRadius(cube, res.arg.rad, res.arg.au,
                                      res.arg.arcsec, res.arg.dpc)
               IN  \A ix \in 0..(cube.nx - 1), iy \in 0..(cube.ny - 1) :
                      /\ PlanesAt(cube.image, ix, iy) # { }
                      /\ \A t \in PlanesAt(cube.image, ix, iy) :
                            res.out.image[t] =
                                IF InsideMask(cube, crad, ix, iy)
                                THEN 0 ELSE cube.image[t]

(***************************************************************************)
(* Arrays with a shape, as numpy indexes and assigns them: an array is its *)
(* shape and its elements by index tuple.  writeFits and plotImage take    *)
(* planes of self.image by fixing axes, and writeFits assigns them into    *)
(* planes of the output array under numpy's broadcasting.                  *)
(***************************************************************************)
\* the index tuples of an array of the given shape, up to four axes
Idx(shape) ==
    IF Len(shape) = 0 THEN { << >> }
    ELSE IF Len(shape) = 1 THEN { <<a>> : a \in 0..(shape[1] - 1) }
    ELSE IF Len(shape) = 2
    THEN (0..(shape[1] - 1)) \X (0..(shape[2] - 1))
    ELSE IF Len(shape) = 3
    THEN (0..(shape[1] - 1)) \X (0..(shape[2] - 1)) \X (0..(shape[3] - 1))
    ELSE (0..(shape[1] - 1)) \X (0..(shape[2] - 1)) \X (0..(shape[3] - 1))
            \X (0..(shape[4] - 1))

\* self.image as an array
ImageArray(c) == [shape |-> c.shape, at |-> c.image]

\* a[..., i, ...] with i on axis k (counted from 1) is inside the array
CanFix(a, k, i) == k <= Len(a.shape) /\ i >= 0 /\ i < a.shape[k]

\* a[..., i, ...]: axis k is dropped
FixAxis(a, k, i) ==
    LET sh == SubSeq(a.shape, 1, k - 1) \o SubSeq(a.shape, k + 1, Len(a.shape))
    IN  [shape |-> sh,
         at |-> [t \in Idx(sh) |->
                    a.at[SubSeq(t, 1, k - 1) \o <<i>> \o SubSeq(t, k, Len(t))]]]

\* sqrt(a**2 + b**2) of two arrays of one shape
Hypot(a, b) ==
    [a EXCEPT !.at = [t \in DOMAIN a.at |-> Sqrt(a.at[t] * a.at[t] + b.at[t] * b.at[t])]]

\* a value of shape vs can be assigned to a slot of shape ts: surplus
\* leading axes have length 1, every other axis has length 1 or the length
\* of the slot's axis
FitsSlot(vs, ts) ==
    LET d == Len(vs) - Len(ts)
    IN  \A j \in 1..Len(vs) :
            IF j <= d THEN vs[j] = 1
            ELSE j - d >= 1 /\ (vs[j] = 1 \/ vs[j] = ts[j - d])

\* the element of the value that lands at index t of the slot
SlotSource(vs, ts, t) ==
    LET d == Len(vs) - Len(ts)
    IN  [j \in 1..Len(vs) |-> IF j <= d \/ vs[j] = 1 THEN 0 ELSE t[j - d]]
(***************************************************************************)
(* Strings, as sequences of characters, with the str methods writeFits and *)
(* plotImage use on the stokes name, the coord string and the answer to    *)
(* the overwrite prompt.                                                   *)
(***************************************************************************)
\* str.strip()
Strip(s) ==
    LET keep == { i \in 1..Len(s) : s[i] # " " }
    IN  IF keep = { } THEN << >>
        ELSE SubSeq(s, CHOOSE i \in keep : \A j \in keep : i <= j,
                       CHOOSE i \in keep : \A j \in keep : i >= j)

\* str.upper(), on the letters of the Stokes names
UpperChar(ch) ==
    CASE ch = "i" -> "I" [] ch = "q" -> "Q" [] ch = "u" -> "U"
      [] ch = "v" -> "V" [] ch = "p" -> "P" [] OTHER -> ch

Upper(s) == [i \in 1..Len(s) |-> UpperChar(s[i])]

\* str.find(ch): the first position of ch counted from 0, or -1
Find(s, ch) ==
    LET hits == { i \in 1..Len(s) : s[i] = ch }
    IN  IF hits = { } THEN -1
        ELSE (CHOOSE i \in hits : \A j \in hits : i <= j) - 1

Digits == <<"0", "1", "2", "3", "4", "5", "6", "7", "8", "9">>

IsDigit(ch) == \E d \in 1..10 : Digits[d] = ch

DigitVal(ch) == (CHOOSE d \in 1..10 : Digits[d] = ch) - 1

RECURSIVE NumberOf(_)
NumberOf(s) ==
    IF Len(s) = 0 THEN 0
    ELSE 10 * NumberOf(SubSeq(s, 1, Len(s) - 1)) + DigitVal(s[Len(s)])

\* float(s) for whole numbers: blanks around an optional sign and digits;
\* anything else is a ValueError
FloatOf(s) ==
    LET t == Strip(s)
        neg == Len(t) > 0 /\ t[1] = "-"
        body == IF Len(t) > 0 /\ t[1] \in {"-", "+"} THEN Tail(t) ELSE t
    IN  IF Len(body) > 0 /\ \A i \in 1..Len(body) : IsDigit(body[i])
        THEN [ok |-> TRUE, val |-> IF neg THEN -NumberOf(body) ELSE NumberOf(body)]
        ELSE [ok |-> FALSE, val |-> 0]

\* the two loops of writeFits over the delimiters of coord: each field ends
\* at its delimiter, which must not be missing or in front (ind <= 0), and
\* is converted with float
RECURSIVE DecodeFields(_, _, _)
DecodeFields(dum, delim, fields) ==
    IF Len(delim) = 0 THEN [outcome |-> "ok", fields |-> fields]
    ELSE LET ind == Find(dum, Head(delim))
         IN  IF ind <= 0 THEN [outcome |-> "refused", fields |-> fields]
             ELSE LET v == FloatOf(SubSeq(dum, 1, ind))
                  IN  IF ~v.ok THEN [outcome |-> "error", fields |-> fields]
                      ELSE DecodeFields(SubSeq(dum, ind + 2, Len(dum)),
                                        Tail(delim), Append(fields, v.val))

DecodeCoord(coord) == DecodeFields(coord, <<"h", "m", "s", "d", "m", "s">>, << >>)

\* target_ra and target_dec in seconds of arc: the fields are hours (or
\* degrees), minutes and seconds, and ra is multiplied by 15
TargetRa(f) == (f[1] * 3600 + f[2] * 60 + f[3]) * 15

TargetDec(f) == f[4] * 3600 + f[5] * 60 + f[6]

\* istokes of writeFits: set for 'I', 'Q', 'U' and 'V' only
StokesIndex(stokes) ==
    LET s == Upper(Strip(stokes))
    IN  IF s = <<"I">> THEN 0
        ELSE IF s = <<"Q">> THEN 1
        ELSE IF s = <<"U">> THEN 2
        ELSE IF s = <<"V">> THEN 3
        ELSE None
(***************************************************************************)
(* writeFits.  Intensities times conv are in the unit 1e23 / pc^2; the     *)
(* file system is the one file fname: whether it exists and what it holds. *)
(* The header calls are those of pyfits, the module imported first.        *)
(***************************************************************************)
NoArray == [shape |-> <<0>>, at |-> << >>]

\* self.image[:, :, i]
Take3(a, i) ==
    IF CanFix(a, 3, i)
    THEN [ok |-> TRUE, val |-> FixAxis(a, 3, i)]
    ELSE [ok |-> FALSE, val |-> NoArray]

\* self.image[:, :, i, j]
Take34(a, i, j) ==
    IF CanFix(a, 3, i) /\ CanFix(a, 4, j)
    THEN [ok |-> TRUE, val |-> FixAxis(FixAxis(a, 4, j), 3, i)]
    ELSE [ok |-> FALSE, val |-> NoArray]

\* sqrt(q**2 + u**2) of two planes
PolarizedIntensity(q, u) ==
    IF q.ok /\ u.ok
    THEN [ok |-> TRUE, val |-> Hypot(q.val, u.val)]
    ELSE [ok |-> FALSE, val |-> NoArray]

\* the right-hand side of the assignment to data for channel inu, before
\* the multiplication by conv, lines 325-358
FitsPlane(c, casa, stokes, inu) ==
    LET img == ImageArray(c)
        istokes == StokesIndex(stokes)
    IN  IF casa THEN
            IF c.nfreq = 1 THEN [ok |-> TRUE, val |-> img] ELSE Take3(img, inu)
        ELSE IF c.stokes THEN
            IF Upper(Strip(stokes)) # <<"P", "I">> THEN
                IF c.nfreq = 1 THEN Take3(img, istokes)
                ELSE Take34(img, istokes, inu)
            ELSE
                IF c.nfreq = 1
                THEN PolarizedIntensity(Take3(img, 1), Take3(img, 2))
                ELSE PolarizedIntensity(Take34(img, 1, inu), Take34(img, 2, inu))
        ELSE IF c.nfreq = 1 THEN Take3(img, 0) ELSE Take3(img, inu)

\* the shape of data: zeros([1, nfreq, ny, nx]) or zeros([nfreq, ny, nx])
FitsShape(c, casa) ==
    IF casa THEN <<1, c.nfreq, c.ny, c.nx>> ELSE <<c.nfreq, c.ny, c.nx>>

\* the leading indices of the plane of data that channel inu is assigned
\* to: data[0,0,:,:] or data[inu,0,:,:] with casa, data[0,:,:] or
\* data[inu,:,:] without
FitsSlotOf(c, casa, inu) ==
    IF casa THEN (IF c.nfreq = 1 THEN <<0, 0>> ELSE <<inu, 0>>)
    ELSE (IF c.nfreq = 1 THEN <<0>> ELSE <<inu>>)

\* the assignment for channel inu raises no IndexError and no ValueError
FitsStepOk(c, casa, stokes, inu) ==
    LET slot == FitsSlotOf(c, casa, inu)
        shape == FitsShape(c, casa)
        p == FitsPlane(c, casa, stokes, inu)
    IN  /\ \A k \in 1..Len(slot) : slot[k] < shape[k]
        /\ p.ok
        /\ FitsSlot(p.val.shape, <<c.ny, c.nx>>)

\* data after the assignments of every channel
FitsData(c, casa, stokes, conv) ==
    LET shape == FitsShape(c, casa)
        chans == 0..(c.nfreq - 1)
    IN  IF \A inu \in chans : FitsStepOk(c, casa, stokes, inu)
        THEN [ok |-> TRUE,
              val |-> [shape |-> shape,
                       at |-> [t \in Idx(shape) |->
                          LET pre == SubSeq(t, 1, Len(t) - 2)
                              yx == SubSeq(t, Len(t) - 1, Len(t))
                              hit == { inu \in chans : FitsSlotOf(c, casa, inu) = pre }
                          IN  IF hit = { } THEN 0
                              ELSE LET p == FitsPlane(c, casa, stokes,
                                                      CHOOSE inu \in hit : TRUE).val
                                   IN  p.at[SlotSource(p.shape, <<c.ny, c.nx>>, yx)]
                                          * conv]]]
        ELSE [ok |-> FALSE, val |-> NoArray]

\* conv for an image that was not convolved (self.fwhm is empty)
ConvOf(c, dpc) == (c.sizepix_x * c.sizepix_y) \div (dpc * dpc)

\* what fname holds: nothing, what it held before the call, or the HDU
NoFits == [exists |-> FALSE, written |-> FALSE, data |-> NoArray,
           target_ra |-> 0, target_dec |-> 0]

OldFits == [NoFits EXCEPT !.exists = TRUE]

NewFits(data, fields) ==
    [exists |-> TRUE, written |-> TRUE, data |-> data,
     target_ra |-> TargetRa(fields), target_dec |-> TargetDec(fields)]

\* the answer to the overwrite prompt starts with 'y' or 'Y': the test
\* dum.strip()[0] raises IndexError on an answer without such a character
AnswerHasFirst(answer) == Len(Strip(answer)) > 0

AnswerIsYes(answer) == Strip(answer)[1] \in {"y", "Y"}

\* radmc3dImage.writeFits(fname, dpc, coord, casa, stokes, fitsheadkeys) with
\* fname existing or not, and the answer the user gives if asked; keys is
\* the type of fitsheadkeys, "list" for the default [] and "dict"
WriteFitsOf(c, exists, coord, dpc, casa, stokes, keys, answer) ==
    LET before == IF exists THEN OldFits ELSE NoFits
        stop(o) == [outcome |-> o, prompted |-> FALSE, file |-> before]
        dec == DecodeCoord(coord)
        data == FitsData(c, casa, stokes, ConvOf(c, dpc))
    IN  IF dec.outcome # "ok" THEN stop(dec.outcome)
        ELSE IF ~c.loaded THEN stop("error")
        ELSE IF ~data.ok THEN stop("error")
        ELSE IF keys # "dict" THEN stop("error")
        ELSE IF ~exists
        THEN [outcome |-> "ok", prompted |-> FALSE,
              file |-> NewFits(data.val, dec.fields)]
        ELSE IF ~AnswerHasFirst(answer)
        THEN [outcome |-> "error", prompted |-> TRUE, file |-> before]
        ELSE IF AnswerIsYes(answer)
        THEN [outcome |-> "ok", prompted |-> TRUE,
              file |-> NewFits(data.val, dec.fields)]
        ELSE [outcome |-> "ok", prompted |-> TRUE, file |-> before]
(***************************************************************************)
(* plotImage with linear scale, bunit='inu' and no mask: the array handed  *)
(* to imshow.                                                              *)
(***************************************************************************)
\* the polarization plane plotImage puts into dum_image.image, lines
\* 904-932: image[:, :, k] for one wavelength, image[:, :, k, :] otherwise,
\* both of which drop the third axis
PlotChannel(c, stokes) ==
    LET img == ImageArray(c)
        s == Upper(Strip(stokes))
    IN  IF ~c.stokes THEN [ok |-> TRUE, val |-> img]
        ELSE IF s = <<"I">> THEN Take3(img, 0)
        ELSE IF s = <<"Q">> THEN Take3(img, 1)
        ELSE IF s = <<"U">> THEN Take3(img, 2)
        ELSE IF s = <<"V">> THEN Take3(img, 2)
        ELSE IF s = <<"P", "I">>
        THEN PolarizedIntensity(Take3(img, 1), Take3(img, 2))
        ELSE [ok |-> TRUE, val |-> img]

\* a[::-1]
FlipFirst(a) ==
    [a EXCEPT !.at = [t \in DOMAIN a.at |->
                         a.at[[t EXCEPT ![1] = a.shape[1] - 1 - @]]]]

\* squeeze(a): the axes of length 1 are dropped
Squeeze(a) ==
    LET keep == { j \in 1..Len(a.shape) : a.shape[j] # 1 }
        rank(j) == Cardinality({ k \in keep : k <= j })
        sh == [r \in 1..Cardinality(keep) |->
                  a.shape[CHOOSE j \in keep : rank(j) = r]]
    IN  [shape |-> sh,
         at |-> [t \in Idx(sh) |->
                    a.at[[j \in 1..Len(a.shape) |->
                             IF j \in keep THEN t[rank(j)] ELSE 0]]]]

\* imshow takes a two-dimensional array, or a three-dimensional one of
\* RGB or RGBA values
Showable(a) ==
    \/ Len(a.shape) = 2
    \/ Len(a.shape) = 3 /\ a.shape[3] \in {3, 4}

\* plotImage(image, bunit='inu', ifreq, stokes): the data shown, and the
\* wavelength of the title
PlotImageOf(c, stokes, ifreq) ==
    LET fail == [outcome |-> "error", out |-> << >>]
        ch == PlotChannel(c, stokes)
    IN  IF ~c.loaded \/ ~ch.ok THEN fail
        ELSE IF Len(ch.val.shape) = 0 THEN fail
        ELSE LET flipped == FlipFirst(ch.val)
             IN  IF ~CanFix(flipped, 3, ifreq) THEN fail
                 ELSE LET data == Squeeze(FixAxis(flipped, 3, ifreq))
                      IN  IF DOMAIN data.at = { } THEN fail
                          ELSE IF ~Showable(data) THEN fail
                          ELSE IF ifreq >= c.nwav THEN fail
                          ELSE [outcome |-> "ok",
                                out |-> [data |-> data, wav |-> c.wav[ifreq]]]

(***************************************************************************)
(* Writing and plotting an image that was read from a file.                *)
(***************************************************************************)
\* files read in SpecFits: both layouts, every shape, all pixel values
\* different
FitsFiles ==
    { File(fmt, nx, ny, nf, 4, 4, Ramp(nx * ny * nf * NPlanes(fmt))) :
        fmt \in {1, 3}, nx \in 1..MaxN, ny \in 1..MaxN, nf \in 1..MaxFreq }

ReadFitsFile ==
    \E f \in FitsFiles, binary \in BOOLEAN :
        res.op = "none" /\ readImage(f, binary)

\* '1h2m3s -4d5m6s'
GoodCoord ==
    <<"1", "h", "2", "m", "3", "s", " ", "-", "4", "d", "5", "m", "6", "s">>

\* coord strings: well formed; empty; no hour field; no declination; no
\* final 's'; a field that is not a number
Coords ==
    { GoodCoord,
      << >>,
      <<"h", "2", "m", "3", "s", " ", "4", "d", "5", "m", "6", "s">>,
      <<"1", "h", "2", "m", "3", "s">>,
      <<"1", "h", "2", "m", "3", "s", " ", "4", "d", "5", "m", "6">>,
      <<"x", "h", "2", "m", "3", "s", " ", "4", "d", "5", "m", "6", "s">> }

\* 'I', 'Q', 'U', 'V', 'PI', ' v' and 'X'
StokesNames ==
    { <<"I">>, <<"Q">>, <<"U">>, <<"V">>, <<"P", "I">>, <<" ", "v">>, <<"X">> }

\* 'yes', 'Y', ' y', 'no', 'n', '' and ' '
Answers ==
    { <<"y", "e", "s">>, <<"Y">>, <<" ", "y">>, <<"n", "o">>, <<"n">>,
      << >>, <<" ">> }

FitsDpc == {1, 2}

\* the calls of writeFits: every way of building the data for a new file,
\* and every coord and answer for a total-intensity file with a dictionary
\* of header keywords
WriteFitsCalls ==
    { [exists |-> FALSE, coord |-> GoodCoord, dpc |-> dpc, casa |-> casa,
       stokes |-> stokes, keys |-> keys, answer |-> << >>] :
        dpc \in FitsDpc, casa \in BOOLEAN, stokes \in StokesNames,
        keys \in {"list", "dict"} }
    \cup
    { [exists |-> exists, coord |-> coord, dpc |-> 1, casa |-> FALSE,
       stokes |-> <<"I">>, keys |-> "dict", answer |-> answer] :
        exists \in BOOLEAN, coord \in Coords, answer \in Answers }

\* a call of writeFits on the object
writeFits ==
    \E a \in WriteFitsCalls :
        /\ res.op = "none"
        /\ LET r == WriteFitsOf(cube, a.exists, a.coord, a.dpc, a.casa,
                                a.stokes, a.keys, a.answer)
           IN  res' = [op |-> "writeFits", outcome |-> r.outcome, arg |-> a,
                       out |-> [prompted |-> r.prompted, file |-> r.file]]
        /\ UNCHANGED <<cube, src>>

\* a call of plotImage on the object
plotImage ==
    \E stokes \in StokesNames, ifreq \in 0..MaxFreq :
        /\ res.op = "none"
        /\ LET r == PlotImageOf(cube, stokes, ifreq)
           IN  res' = [op |-> "plotImage", outcome |-> r.outcome,
                       arg |-> [stokes |-> stokes, ifreq |-> ifreq],
                       out |-> r.out]
        /\ UNCHANGED <<cube, src>>

NextFits == ReadFitsFile \/ writeFits \/ plotImage

SpecFits == Init /\ [][NextFits]_vars

(***************************************************************************)
(* Claims about writeFits and plotImage, checked under SpecFits.           *)
(***************************************************************************)
\* writeFits was called with a well-formed coord and a dictionary of header
\* keywords for a file that does not exist yet
NewFitsCall ==
    /\ IsCall("writeFits")
    /\ cube.loaded
    /\ ~res.arg.exists
    /\ res.arg.coord = GoodCoord
    /\ res.arg.keys = "dict"

\* C22: writeFits with casa=True writes a four-dimensional cube that holds
\* every frequency plane of the image: for every nfreq >= 1 and every
\* channel inu < nfreq, plane inu of the image times the unit conversion is
\* at frequency index inu of the output array [1, nfreq, ny, nx], and no
\* index leaves the array.
C22_CasaHoldsEveryPlane ==
    (NewFitsCall /\ res.arg.casa /\ ~cube.stokes /\ ~cube.binary) =>
        /\ res.outcome = "ok"
        /\ res.out.file.written
        /\ res.out.file.data.shape = <<1, cube.nfreq, cube.ny, cube.nx>>
        /\ \A inu \in 0..(cube.nfreq - 1), iy \in 0..(cube.ny - 1),
              ix \in 0..(cube.nx - 1) :
                res.out.file.data.at[<<0, inu, iy, ix>>]
                    = cube.image[<<ix, iy, inu>>] * ConvOf(cube, res.arg.dpc)

\* the values of the polarization channel a Stokes name stands for, in the
\* plane of wavelength inu of a cube (nx, ny, 4, nfreq): I, Q, U, V are the
\* channels 0 to 3 and PI is sqrt(Q^2 + U^2)
ChannelValues(c, stokes, inu) ==
    LET s == Upper(Strip(stokes))
        at(ix, iy, k) == c.image[<<ix, iy, k, inu>>]
    IN  { IF s = <<"P", "I">>
          THEN Sqrt(at(ix, iy, 1) * at(ix, iy, 1) + at(ix, iy, 2) * at(ix, iy, 2))
          ELSE at(ix, iy, StokesIndex(stokes)) :
            ix \in 0..(c.nx - 1), iy \in 0..(c.ny - 1) }

\* a call on a Stokes cube in the layout (nx, ny, 4, nfreq) that names one
\* of 'I', 'Q', 'U', 'V', 'PI' and returned normally
StokesCall(op) ==
    /\ IsCall(op)
    /\ cube.loaded
    /\ cube.stokes
    /\ ~cube.binary
    /\ Upper(Strip(res.arg.stokes)) \in
          { <<"I">>, <<"Q">>, <<"U">>, <<"V">>, <<"P", "I">> }
    /\ res.outcome = "ok"

\* C23: for a Stokes cube the Stokes name selects the same polarization
\* channel in plotImage as in writeFits and in the data layout: 'I' is
\* channel 0, 'Q' 1, 'U' 2, 'V' 3 and 'PI' is sqrt(Q^2 + U^2); plotImage
\* with stokes='V' shows channel 3.
C23_SameChannelEverywhere ==
    /\ StokesCall("plotImage") =>
          { res.out.data.at[t] : t \in DOMAIN res.out.data.at }
              = ChannelValues(cube, res.arg.stokes, res.arg.ifreq)
    /\ (StokesCall("writeFits") /\ ~res.arg.casa /\ res.out.file.written) =>
          \A inu \in 0..(cube.nfreq - 1) :
              { res.out.file.data.at[t] :
                  t \in { u \in DOMAIN res.out.file.data.at : u[1] = inu } }
                  = { v * ConvOf(cube, res.arg.dpc) :
                        v \in ChannelValues(cube, res.arg.stokes, inu) }

\* C24: writeFits never destroys an existing file without consent: an
\* existing file is removed and rewritten only if the answer to the prompt
\* starts with 'y' or 'Y'; after every other answer, an empty one included,
\* the file is unchanged and the call ends normally; a file that does not
\* exist is written without a prompt; with a malformed coord nothing is
\* written or removed.
C24_OverwriteOnlyWithConsent ==
    IsCall("writeFits") =>
        LET before == IF res.arg.exists THEN OldFits ELSE NoFits
            yes == AnswerHasFirst(res.arg.answer) /\ AnswerIsYes(res.arg.answer)
        IN  /\ DecodeCoord(res.arg.coord).outcome # "ok" =>
                  res.out.file = before /\ ~res.out.prompted
            /\ (res.arg.exists /\ res.out.file # before) =>
                  res.out.prompted /\ yes /\ res.out.file.written
            /\ (res.arg.exists /\ res.out.prompted /\ ~yes) =>
                  res.out.file = before /\ res.outcome = "ok"
            /\ (~res.arg.exists /\ res.outcome = "ok") =>
                  res.out.file.written /\ ~res.out.prompted

====
